---- MODULE Spec2Model ----
(***************************************************************************)
(* Graph execution engine of app/engine/runner.py: Graph, eval_condition,  *)
(* run_graph (batch mode) and stream_graph (streaming mode).               *)
(*                                                                         *)
(* Spec models one run.  An action is the code between two suspension      *)
(* points of the coroutine / async generator: the invocation of a step     *)
(* (await node_fn(state)) and, in streaming mode, every yield.  The        *)
(* consumer of a streaming run is the async for loop of                    *)
(* websocket_graph_run (app/api/endpoints.py): the generator runs only     *)
(* while that loop waits for its next event.                               *)
(* ServerSpec models run_graph_endpoint serving two requests at once over  *)
(* one stored graph and one registry.                                      *)
(* Timestamps (time.time()) and durations are left out of log entries and  *)
(* events: nothing in the engine reads them.                               *)
(***************************************************************************)
EXTENDS Integers, Sequences, FiniteSets, TLC

VARIABLES
    mode,       \* "batch" (run_graph) or "stream" (stream_graph)
    graph,      \* Graph: [start_node, edges]
    node_map,   \* Graph.node_map: node name -> step (Absent when not registered)
    state0,     \* the state the caller passed in
    state,      \* local variable state
    current,    \* local variable current
    max_iters,  \* local variable max_iters
    log,        \* local variable log of run_graph
    pc,         \* position of the coroutine / generator
    outcome,    \* "running", "returned" (normal end) or "raised" (exception propagated)
    ret,        \* <<>> or <<[state, log]>>: what run_graph returned
    events,     \* events yielded by stream_graph so far, in order
    invoked,    \* names of the nodes whose step was invoked so far, in order
    last_cond,  \* the latest eval_condition call on the current state: <<>> or <<[check, res]>>
    executing,  \* number of step invocations of the run that have not ended yet
    consumer,   \* the async for loop over stream_graph: "anext" (waits for the next
                \* event), "send" (holds an event: send_json, sleep), "stopped"
                \* (left the loop by an exception), "closed" (the generator is
                \* exhausted); "none" in batch mode
    sent,       \* number of events the consumer has passed to send_json
    heap,       \* server: the DataState objects of the requests, by the run that made them
    runs,       \* server: the local variables of each run_graph_endpoint call
    RUNS        \* server: the run store _RUNS

\* the variables of one run, the variables of the server
runvars == <<mode, state0, state, current, max_iters, log, pc, outcome, ret, events,
             invoked, last_cond, executing, consumer, sent>>
srv == <<heap, runs, RUNS>>

vars == <<mode, graph, node_map, state0, state, current, max_iters, log, pc,
          outcome, ret, events, invoked, last_cond, executing, consumer, sent,
          heap, runs, RUNS>>

----------------------------------------------------------------------------
(* Bounds of the model *)

\* initial iteration ranges over -NegIters .. 0, and so do the negative
\* max_iterations entries of the metadata
NegIters == 1
\* explicit max_iterations entries range over -NegIters .. MaxBound
MaxBound == 2
\* initial metadata x ranges over 0 .. MaxX (or is absent)
MaxX == 1
\* a detection of the data-quality workflow finds 0 .. MaxAnom anomalies
MaxAnom == 1

\* metadata.get("max_iterations", 5)
DefaultMaxIters == 5

\* No terminating run of the model invokes this many steps (a loop of the graphs below
\* has at most three nodes, and one of its steps raises iteration); the history of a
\* run that goes on longer is kept up to this length only.
MaxSteps == 3 * (DefaultMaxIters + NegIters + MaxBound)

----------------------------------------------------------------------------
(* Values *)

NoneNode == "None"
Nodes == {"A", "B"}
Targets == Nodes \cup {NoneNode}

\* Python values that conditions compare: an int or None
V(n) == [t |-> "int", v |-> n]
NoneV == [t |-> "none", v |-> 0]

\* named fields of DataState that hold an int
Fields == {"iteration", "anomaly_count"}

Absent == "absent"

MetaKeys == {"x", "max_iterations"}

\* DataState(iteration, anomaly_count, metadata, data); the engine reads none of the
\* other fields.  data stands for the rows: the numbers of anomalies that successive
\* detections (identify_anomalies) find in them, <<>> when the steps do not read it
DataState(it, ac, md) ==
    [iteration |-> it, anomaly_count |-> ac, metadata |-> md, data |-> <<>>]

----------------------------------------------------------------------------
(* Steps: the callables the registry maps node names to *)

\* "inc":   iteration += 1
\* "noop":  returns its input unchanged
\* "dec":   metadata["x"] -= 1; iteration += 1   (KeyError when x is not in metadata)
\* "raise": raises
StepKinds == {"inc", "noop", "dec", "raise"}

\* The steps of app/workflows/data_quality.py, as far as the engine can see them:
\* profile, rules, anomalies and applied_actions are left out, and the rows are the
\* anomaly counts the coming detections will find (when none is left, a detection
\* finds what the previous one found).
DQNodes ==
    {"profile_data", "identify_anomalies", "generate_rules", "apply_rules", "re_evaluate"}

profile_data(st) == st

identify_anomalies(st) ==
    IF st.data = <<>> THEN st
    ELSE [st EXCEPT !.anomaly_count = Head(st.data), !.data = Tail(st.data)]

generate_rules(st) == st

apply_rules(st) == st

\* mutant of re_evaluate: the iteration counter is not increased
re_evaluateNoIncrement(st) == identify_anomalies(profile_data(st))

re_evaluate(st) ==
    identify_anomalies(profile_data([st EXCEPT !.iteration = @ + 1]))

\* node_fn(state): [ok |-> the call returned, state |-> the state it returned]
StepApply(kind, st) ==
    CASE kind = "inc"  -> [ok |-> TRUE, state |-> [st EXCEPT !.iteration = @ + 1]]
      [] kind = "profile_data" -> [ok |-> TRUE, state |-> profile_data(st)]
      [] kind = "identify_anomalies" -> [ok |-> TRUE, state |-> identify_anomalies(st)]
      [] kind = "generate_rules" -> [ok |-> TRUE, state |-> generate_rules(st)]
      [] kind = "apply_rules" -> [ok |-> TRUE, state |-> apply_rules(st)]
      [] kind = "re_evaluate" -> [ok |-> TRUE, state |-> re_evaluate(st)]
      [] kind = "noop" -> [ok |-> TRUE, state |-> st]
      [] kind = "dec"  ->
            IF "x" \in DOMAIN st.metadata
            THEN [ok |-> TRUE,
                  state |-> [st EXCEPT !.metadata["x"] = @ - 1, !.iteration = @ + 1]]
            ELSE [ok |-> FALSE, state |-> st]
      [] OTHER         -> [ok |-> FALSE, state |-> st]

----------------------------------------------------------------------------
(* Graph *)

NoEdge == [kind |-> "none"]
StrEdge(t) == [kind |-> "str", to |-> t]
CondEdge(c, t, f) == [kind |-> "cond", check |-> c, true |-> t, false |-> f]

\* Graph.get_node_fn: self.node_map.get(name)
get_node_fn(name) == IF name \in DOMAIN node_map THEN node_map[name] ELSE Absent

\* graph.edges.get(name)
edges_get(name) == IF name \in DOMAIN graph.edges THEN graph.edges[name] ELSE NoEdge

----------------------------------------------------------------------------
(* eval_condition *)

OrderOps == {">", "<", ">=", "<="}
SupportedOps == OrderOps \cup {"=="}

\* mutant of LhsVal: state.metadata.get(lhs, 0)
LhsValDefaultZero(lhs, st) ==
    IF lhs \in Fields THEN V(st[lhs])
    ELSE IF lhs \in DOMAIN st.metadata THEN V(st.metadata[lhs])
    ELSE V(0)

\* mutant of LhsVal: the metadata bag is consulted first, the state's fields second
LhsValMetadataFirst(lhs, st) ==
    IF lhs \in DOMAIN st.metadata THEN V(st.metadata[lhs])
    ELSE IF lhs \in Fields THEN V(st[lhs])
    ELSE NoneV

\* getattr(state, lhs) if hasattr(state, lhs) else state.metadata.get(lhs)
LhsVal(lhs, st) ==
    IF lhs \in Fields THEN V(st[lhs])
    ELSE IF lhs \in DOMAIN st.metadata THEN V(st.metadata[lhs])
    ELSE NoneV

\* mutant of Order: > compares as >=
OrderGtAsGe(op, a, b) ==
    IF a.t # "int" \/ b.t # "int" THEN "raise"
    ELSE LET r == CASE op = ">"  -> a.v >= b.v
                    [] op = "<"  -> a.v < b.v
                    [] op = ">=" -> a.v >= b.v
                    [] OTHER     -> a.v <= b.v
         IN IF r THEN "true" ELSE "false"

\* an ordering comparison of Python values: TypeError unless both are ints
Order(op, a, b) ==
    IF a.t # "int" \/ b.t # "int" THEN "raise"
    ELSE LET r == CASE op = ">"  -> a.v > b.v
                    [] op = "<"  -> a.v < b.v
                    [] op = ">=" -> a.v >= b.v
                    [] OTHER     -> a.v <= b.v
         IN IF r THEN "true" ELSE "false"

\* mutant of eval_condition: an operator outside the supported set raises
eval_conditionUnknownRaises(cond_obj, st) ==
    IF cond_obj.op \in OrderOps
    THEN Order(cond_obj.op, LhsVal(cond_obj.lhs, st), cond_obj.rhs)
    ELSE IF cond_obj.op = "=="
    THEN (IF LhsVal(cond_obj.lhs, st) = cond_obj.rhs THEN "true" ELSE "false")
    ELSE "raise"

\* "true", "false", or "raise" when the comparison raises
eval_condition(cond_obj, st) ==
    LET lhs_val == LhsVal(cond_obj.lhs, st)
        rhs == cond_obj.rhs
    IN  IF cond_obj.op \in OrderOps THEN Order(cond_obj.op, lhs_val, rhs)
        ELSE IF cond_obj.op = "==" THEN (IF lhs_val = rhs THEN "true" ELSE "false")
        ELSE "false"

\* mutant of MaxItersOf: state.metadata.get("max_iterations", 3)
MaxItersOfDefaultThree(md) ==
    IF "max_iterations" \in DOMAIN md THEN md["max_iterations"] ELSE 3

\* state.metadata.get("max_iterations", 5)
MaxItersOf(md) ==
    IF "max_iterations" \in DOMAIN md THEN md["max_iterations"] ELSE DefaultMaxIters

\* mutant of ResolveEdge: a node without an edge entry raises (graph.edges[current])
ResolveEdgeMissingRaises(edge, st) ==
    IF edge.kind = "str" THEN [raised |-> FALSE, next |-> edge.to, cond |-> <<>>]
    ELSE IF edge.kind = "cond" THEN
        LET res == eval_condition(edge.check, st)
            c == <<[check |-> edge.check, res |-> res]>>
        IN  IF res = "raise" THEN [raised |-> TRUE, next |-> NoneNode, cond |-> c]
            ELSE IF res = "true" THEN [raised |-> FALSE, next |-> edge.true, cond |-> c]
            ELSE [raised |-> FALSE, next |-> edge.false, cond |-> c]
    ELSE [raised |-> TRUE, next |-> NoneNode, cond |-> <<>>]

\* the edge handling after a step: [raised, next, cond], cond the eval_condition call made
ResolveEdge(edge, st) ==
    IF edge.kind = "str" THEN [raised |-> FALSE, next |-> edge.to, cond |-> <<>>]
    ELSE IF edge.kind = "cond" THEN
        LET res == eval_condition(edge.check, st)
            c == <<[check |-> edge.check, res |-> res]>>
        IN  IF res = "raise" THEN [raised |-> TRUE, next |-> NoneNode, cond |-> c]
            ELSE IF res = "true" THEN [raised |-> FALSE, next |-> edge.true, cond |-> c]
            ELSE [raised |-> FALSE, next |-> edge.false, cond |-> c]
    ELSE [raised |-> FALSE, next |-> NoneNode, cond |-> <<>>]

\* mutant of BoundReached: if state.iteration > max_iters
BoundReachedStrict(st, mx) == st.iteration > mx

\* if state.iteration >= max_iters
BoundReached(st, mx) == st.iteration >= mx

\* history kept up to MaxSteps entries
Record(seq, e) == IF Len(seq) < MaxSteps THEN Append(seq, e) ELSE seq

\* events kept: one per step, plus start and the closing events
MaxEvents == MaxSteps + 3

\* mutant of Yield: the event is buffered and the generator goes on without waiting
\* for the consumer
YieldBuffered(ev) ==
    /\ events' = (IF Len(events) < MaxEvents THEN Append(events, ev) ELSE events)
    /\ consumer' = consumer

\* yield ev: the generator is suspended and the consumer's __anext__ returns ev
Yield(ev) ==
    /\ events' = (IF Len(events) < MaxEvents THEN Append(events, ev) ELSE events)
    /\ consumer' = "send"

----------------------------------------------------------------------------
(* Inputs: the graphs, registries and initial states a run is started with *)

\* conditions of the general graphs
MainChecks == {[lhs |-> "x", op |-> o, rhs |-> V(0)] : o \in {">", "==", "!="}}

\* conditions of the one-edge graphs: every operator, a state field, a metadata key
\* and a name that is neither, int and None right operands
AllChecks ==
    {[lhs |-> l, op |-> o, rhs |-> r] :
        l \in {"iteration", "x", "nope"}, o \in SupportedOps \cup {"!="},
        r \in {V(0), V(1), NoneV}}

Metadatas ==
    {md \in UNION {[K -> (0 - NegIters) .. MaxBound] : K \in SUBSET MetaKeys} :
        "x" \in DOMAIN md => md["x"] = MaxX}

States == {DataState(it, 0, md) : it \in (0 - NegIters) .. 0, md \in Metadatas}

\* states whose metadata has a key named like a state field, with another value
ShadowStates ==
    {DataState(it, 0, [k \in {"iteration"} |-> MaxX]) : it \in (0 - NegIters) .. 0}

MainGraphs ==
    {[start_node |-> "A", edges |-> [n \in Nodes |-> IF n = "A" THEN ea ELSE eb]] :
        ea \in {NoEdge, StrEdge("A"), StrEdge("B")},
        eb \in {NoEdge, StrEdge("A")}
               \cup {CondEdge(c, t, f) : c \in MainChecks,
                                         t \in {"A", NoneNode}, f \in {"A", NoneNode}}}
    \cup {[start_node |-> NoneNode, edges |-> [n \in Nodes |-> NoEdge]]}

MainRegistries ==
    {[n \in Nodes |-> IF n = "A" THEN ka ELSE kb] :
        ka \in StepKinds \cup {Absent}, kb \in {"inc", "noop", "raise", Absent}}

EvalGraphs ==
    {[start_node |-> "A",
      edges |-> [n \in Nodes |-> IF n = "A" THEN CondEdge(c, "B", NoneNode) ELSE NoEdge]] :
        c \in AllChecks}

\* the scenario A -> B, B -> (x > 0 ? A : end), A: x -= 1; iteration += 1, B: identity
ExampleGraph ==
    [start_node |-> "A",
     edges |-> [n \in Nodes |->
                  IF n = "A" THEN StrEdge("B")
                  ELSE CondEdge([lhs |-> "x", op |-> ">", rhs |-> V(0)], "A", NoneNode)]]
ExampleRegistry == [n \in Nodes |-> IF n = "A" THEN "dec" ELSE "noop"]
ExampleState == DataState(0, 0, [k \in MetaKeys |-> IF k = "x" THEN 2 ELSE 5])

\* the data-quality loop: profile_data -> identify_anomalies -> generate_rules ->
\* apply_rules -> re_evaluate -> (anomaly_count > 0 ? generate_rules : end)
DQGraph ==
    [start_node |-> "profile_data",
     edges |-> [n \in DQNodes |->
                  CASE n = "profile_data" -> StrEdge("identify_anomalies")
                    [] n = "identify_anomalies" -> StrEdge("generate_rules")
                    [] n = "generate_rules" -> StrEdge("apply_rules")
                    [] n = "apply_rules" -> StrEdge("re_evaluate")
                    [] OTHER ->
                         CondEdge([lhs |-> "anomaly_count", op |-> ">", rhs |-> V(0)],
                                  "generate_rules", NoneNode)]]
DQRegistry == [n \in DQNodes |-> n]

\* the anomaly counts of the first DefaultMaxIters + 1 detections of a run
Tapes == [1 .. DefaultMaxIters + 1 -> 0 .. MaxAnom]

DQStates ==
    {[DataState(0, 0, md) EXCEPT !.data = t] :
        md \in {m \in Metadatas : "x" \notin DOMAIN m}, t \in Tapes}

Inputs ==
    {[graph |-> g, node_map |-> r, state |-> s] :
        g \in MainGraphs, r \in MainRegistries, s \in States}
    \cup {[graph |-> g, node_map |-> [n \in Nodes |-> "noop"], state |-> s] :
            g \in EvalGraphs, s \in States \cup ShadowStates}
    \cup {[graph |-> ExampleGraph, node_map |-> ExampleRegistry, state |-> ExampleState]}
    \cup {[graph |-> DQGraph, node_map |-> DQRegistry, state |-> s] : s \in DQStates}

Init ==
    /\ mode \in {"batch", "stream"}
    /\ \E i \in Inputs :
          /\ graph = i.graph
          /\ node_map = i.node_map
          /\ state0 = i.state
          /\ state = i.state
    /\ current = NoneNode
    /\ max_iters = 0
    /\ log = <<>>
    /\ pc = "start"
    /\ outcome = "running"
    /\ ret = <<>>
    /\ events = <<>>
    /\ invoked = <<>>
    /\ last_cond = <<>>
    /\ executing = 0
    /\ consumer = (IF mode = "stream" THEN "anext" ELSE "none")
    /\ sent = 0
    /\ heap = <<>> /\ runs = <<>> /\ RUNS = <<>>

----------------------------------------------------------------------------
(* run_graph *)

LogEntry(node, st) == [node |-> node, anomaly_count |-> st.anomaly_count]

\* mutant of BatchRaise: the exception is swallowed and run_graph returns
BatchSwallow ==
    /\ pc' = "done"
    /\ outcome' = "returned"
    /\ ret' = <<[state |-> state', log |-> log']>>
    /\ UNCHANGED <<current, invoked>>

\* an exception leaves run_graph: nothing is returned
BatchRaise ==
    /\ pc' = "done"
    /\ outcome' = "raised"
    /\ UNCHANGED <<current, ret, invoked>>

\* current = graph.start_node; log = []; max_iters = ...
BatchBegin ==
    /\ mode = "batch" /\ pc = "start"
    /\ UNCHANGED srv
    /\ current' = graph.start_node
    /\ log' = <<>>
    /\ max_iters' = MaxItersOf(state.metadata)
    /\ pc' = "loop"
    /\ UNCHANGED <<mode, graph, node_map, state0, state, outcome, ret, events, invoked,
                   last_cond, executing, consumer, sent>>

\* mutant of BatchLoop: the iteration cap is tested at the head of the loop, before
\* the step of the current node is invoked
BatchLoopCapAtHead ==
    /\ mode = "batch" /\ pc = "loop"
    /\ UNCHANGED srv
    /\ IF \/ current = NoneNode \/ get_node_fn(current) = Absent
          \/ BoundReached(state, max_iters)
       THEN /\ pc' = "done"
            /\ outcome' = "returned"
            /\ ret' = <<[state |-> state, log |-> log]>>
            /\ UNCHANGED <<invoked, executing>>
       ELSE /\ pc' = "in_step"
            /\ invoked' = Record(invoked, current)
            /\ executing' = executing + 1
            /\ UNCHANGED <<outcome, ret>>
    /\ UNCHANGED <<mode, graph, node_map, state0, state, current, max_iters, log, events,
                   last_cond, consumer, sent>>

\* mutant of BatchLoop: a node without a step raises (node_fn is called unchecked)
BatchLoopMissingRaises ==
    /\ mode = "batch" /\ pc = "loop"
    /\ UNCHANGED srv
    /\ IF current = NoneNode
       THEN /\ pc' = "done"
            /\ outcome' = "returned"
            /\ ret' = <<[state |-> state, log |-> log]>>
            /\ UNCHANGED <<invoked, executing>>
       ELSE IF get_node_fn(current) = Absent
       THEN /\ pc' = "done"
            /\ outcome' = "raised"
            /\ UNCHANGED <<ret, invoked, executing>>
       ELSE /\ pc' = "in_step"
            /\ invoked' = Record(invoked, current)
            /\ executing' = executing + 1
            /\ UNCHANGED <<outcome, ret>>
    /\ UNCHANGED <<mode, graph, node_map, state0, state, current, max_iters, log, events,
                   last_cond, consumer, sent>>

\* top of the while loop: leave the loop and return (state, log) when current is None
\* or has no step, else invoke the step of current
BatchLoop ==
    /\ mode = "batch" /\ pc = "loop"
    /\ UNCHANGED srv
    /\ IF current = NoneNode \/ get_node_fn(current) = Absent
       THEN /\ pc' = "done"
            /\ outcome' = "returned"
            /\ ret' = <<[state |-> state, log |-> log]>>
            /\ UNCHANGED <<invoked, executing>>
       ELSE /\ pc' = "in_step"
            /\ invoked' = Record(invoked, current)
            /\ executing' = executing + 1
            /\ UNCHANGED <<outcome, ret>>
    /\ UNCHANGED <<mode, graph, node_map, state0, state, current, max_iters, log, events,
                   last_cond, consumer, sent>>

\* mutant of BatchStepReturn: the log entry is appended after the edge handling, so a
\* failing condition evaluation leaves the returned step without an entry
BatchStepReturnLogAfterEdge ==
    /\ mode = "batch" /\ pc = "in_step"
    /\ UNCHANGED srv
    /\ executing' = executing - 1
    /\ LET r == StepApply(get_node_fn(current), state)
       IN  IF ~r.ok
           THEN UNCHANGED <<state, log, last_cond>> /\ BatchRaise
           ELSE LET st == r.state
                    lg == Record(log, LogEntry(current, st))
                    e == ResolveEdge(edges_get(current), st)
                IN  /\ state' = st
                    /\ last_cond' = e.cond
                    /\ IF e.raised THEN log' = log /\ BatchRaise
                       ELSE IF BoundReached(st, max_iters)
                       THEN /\ log' = lg
                            /\ pc' = "done"
                            /\ outcome' = "returned"
                            /\ ret' = <<[state |-> st, log |-> lg]>>
                            /\ UNCHANGED <<current, invoked>>
                       ELSE /\ log' = lg
                            /\ current' = e.next
                            /\ pc' = "loop"
                            /\ UNCHANGED <<outcome, ret, invoked>>
    /\ UNCHANGED <<mode, graph, node_map, state0, max_iters, events, consumer, sent>>

\* the step returns or raises; then the log entry, the edge and the iteration cap
BatchStepReturn ==
    /\ mode = "batch" /\ pc = "in_step"
    /\ UNCHANGED srv
    /\ executing' = executing - 1
    /\ LET r == StepApply(get_node_fn(current), state)
       IN  IF ~r.ok
           THEN UNCHANGED <<state, log, last_cond>> /\ BatchRaise
           ELSE LET st == r.state
                    lg == Record(log, LogEntry(current, st))
                    e == ResolveEdge(edges_get(current), st)
                IN  /\ state' = st
                    /\ log' = lg
                    /\ last_cond' = e.cond
                    /\ IF e.raised THEN BatchRaise
                       ELSE IF BoundReached(st, max_iters)
                       THEN /\ pc' = "done"
                            /\ outcome' = "returned"
                            /\ ret' = <<[state |-> st, log |-> lg]>>
                            /\ UNCHANGED <<current, invoked>>
                       ELSE /\ current' = e.next
                            /\ pc' = "loop"
                            /\ UNCHANGED <<outcome, ret, invoked>>
    /\ UNCHANGED <<mode, graph, node_map, state0, max_iters, events, consumer, sent>>

\* run_graph as a function of its arguments: the while loop from current = cur with
\* state st and log lg, for at most fuel steps ("running" when they do not suffice)
RECURSIVE RunLoop(_, _, _, _, _)
RunLoop(cur, st, lg, mx, fuel) ==
    IF cur = NoneNode \/ get_node_fn(cur) = Absent
    THEN [outcome |-> "returned", state |-> st, log |-> lg]
    ELSE IF fuel = 0 THEN [outcome |-> "running", state |-> st, log |-> lg]
    ELSE LET r == StepApply(get_node_fn(cur), st)
         IN  IF ~r.ok THEN [outcome |-> "raised", state |-> st, log |-> lg]
             ELSE LET lg2 == Append(lg, LogEntry(cur, r.state))
                      e == ResolveEdge(edges_get(cur), r.state)
                  IN  IF e.raised
                      THEN [outcome |-> "raised", state |-> r.state, log |-> lg2]
                      ELSE IF BoundReached(r.state, mx)
                      THEN [outcome |-> "returned", state |-> r.state, log |-> lg2]
                      ELSE RunLoop(e.next, r.state, lg2, mx, fuel - 1)

run_graph(st) == RunLoop(graph.start_node, st, <<>>, MaxItersOf(st.metadata), MaxSteps - 1)

----------------------------------------------------------------------------
(* stream_graph *)

StartEvent(cur, st) == [type |-> "start", start_node |-> cur, initial_state |-> st]
MissingEvent(cur) == [type |-> "error", message |-> <<"not found in node_map", cur>>]
StepErrorEvent(cur) == [type |-> "error", node |-> cur, message |-> <<"step raised">>]
StepEvent(cur, st) ==
    [type |-> "step", node |-> cur, anomaly_count |-> st.anomaly_count,
     state_snapshot |-> st]
CondErrorEvent == [type |-> "error", message |-> <<"condition eval error">>]
InfoEvent(st) ==
    [type |-> "info", message |-> <<"Max iterations reached">>, iteration |-> st.iteration]
CompleteEvent(st) == [type |-> "complete", final_state |-> st]

\* mutant of StreamHead: a node without a step ends the loop silently, as in run_graph
StreamHeadSilentMissing(cur) ==
    IF cur = NoneNode \/ get_node_fn(cur) = Absent
    THEN /\ Yield(CompleteEvent(state'))
         /\ pc' = "y_complete"
         /\ UNCHANGED <<invoked, executing>>
    ELSE /\ pc' = "in_step"
         /\ invoked' = Record(invoked, cur)
         /\ executing' = executing + 1
         /\ UNCHANGED <<events, consumer>>

\* mutant of StreamHead: the step is dispatched and not awaited; the step event is
\* yielded at once
StreamHeadNoAwait(cur) ==
    IF cur = NoneNode
    THEN /\ Yield(CompleteEvent(state'))
         /\ pc' = "y_complete"
         /\ UNCHANGED <<invoked, executing>>
    ELSE IF get_node_fn(cur) = Absent
    THEN /\ Yield(MissingEvent(cur))
         /\ pc' = "y_error"
         /\ UNCHANGED <<invoked, executing>>
    ELSE /\ pc' = "y_step"
         /\ invoked' = Record(invoked, cur)
         /\ executing' = executing + 1
         /\ Yield(StepEvent(cur, state'))

\* top of the while loop with current = cur: the loop ends and complete is yielded,
\* the missing-node error is yielded, or the step of cur is invoked
StreamHead(cur) ==
    IF cur = NoneNode
    THEN /\ Yield(CompleteEvent(state'))
         /\ pc' = "y_complete"
         /\ UNCHANGED <<invoked, executing>>
    ELSE IF get_node_fn(cur) = Absent
    THEN /\ Yield(MissingEvent(cur))
         /\ pc' = "y_error"
         /\ UNCHANGED <<invoked, executing>>
    ELSE /\ pc' = "in_step"
         /\ invoked' = Record(invoked, cur)
         /\ executing' = executing + 1
         /\ UNCHANGED <<events, consumer>>

\* the consumer has asked the generator for its next event
Resumed == mode = "stream" /\ consumer = "anext"

\* mutant of StreamBegin: without a start node the start event is skipped and the
\* generator goes straight to the completion yield
StreamBeginNoStartWithoutNode ==
    /\ Resumed /\ pc = "start"
    /\ UNCHANGED srv
    /\ current' = graph.start_node
    /\ max_iters' = MaxItersOf(state.metadata)
    /\ IF graph.start_node = NoneNode
       THEN Yield(CompleteEvent(state)) /\ pc' = "y_complete"
       ELSE Yield(StartEvent(graph.start_node, state)) /\ pc' = "y_start"
    /\ UNCHANGED <<mode, graph, node_map, state0, state, log, outcome, ret, invoked,
                   last_cond, executing, sent>>

\* up to the yield of the start event
StreamBegin ==
    /\ Resumed /\ pc = "start"
    /\ UNCHANGED srv
    /\ current' = graph.start_node
    /\ max_iters' = MaxItersOf(state.metadata)
    /\ Yield(StartEvent(graph.start_node, state))
    /\ pc' = "y_start"
    /\ UNCHANGED <<mode, graph, node_map, state0, state, log, outcome, ret, invoked,
                   last_cond, executing, sent>>

\* resumed after the start event: first loop head
StreamAfterStart ==
    /\ Resumed /\ pc = "y_start"
    /\ UNCHANGED srv
    /\ state' = state
    /\ StreamHead(current)
    /\ UNCHANGED <<mode, graph, node_map, state0, current, max_iters, log, outcome, ret,
                   last_cond, sent>>

\* mutant of StreamStepReturn: the state the step returned is reported in the step
\* event and not assigned to state
StreamStepReturnDropsResult ==
    /\ Resumed /\ pc = "in_step"
    /\ UNCHANGED srv
    /\ executing' = executing - 1
    /\ LET r == StepApply(get_node_fn(current), state)
       IN  IF ~r.ok
           THEN /\ Yield(StepErrorEvent(current))
                /\ pc' = "y_error"
                /\ UNCHANGED <<state, last_cond>>
           ELSE /\ state' = state
                /\ Yield(StepEvent(current, r.state))
                /\ pc' = "y_step"
                /\ last_cond' = <<>>
    /\ UNCHANGED <<mode, graph, node_map, state0, current, max_iters, log, outcome, ret,
                   invoked, sent>>

\* the awaited step returns (step event) or raises (error event)
StreamStepReturn ==
    /\ Resumed /\ pc = "in_step"
    /\ UNCHANGED srv
    /\ executing' = executing - 1
    /\ LET r == StepApply(get_node_fn(current), state)
       IN  IF ~r.ok
           THEN /\ Yield(StepErrorEvent(current))
                /\ pc' = "y_error"
                /\ UNCHANGED <<state, last_cond>>
           ELSE /\ state' = r.state
                /\ Yield(StepEvent(current, r.state))
                /\ pc' = "y_step"
                /\ last_cond' = <<>>
    /\ UNCHANGED <<mode, graph, node_map, state0, current, max_iters, log, outcome, ret,
                   invoked, sent>>

\* mutant of StreamAfterStep: the iteration cap is tested only when the edge resolved
\* to a successor
StreamAfterStepCapOnlyWithSuccessor ==
    /\ Resumed /\ pc = "y_step"
    /\ UNCHANGED srv
    /\ state' = state
    /\ LET e == ResolveEdge(edges_get(current), state)
       IN  /\ last_cond' = e.cond
           /\ IF e.raised
              THEN /\ Yield(CondErrorEvent)
                   /\ pc' = "y_error"
                   /\ UNCHANGED <<current, invoked, executing>>
              ELSE IF e.next # NoneNode /\ BoundReached(state, max_iters)
              THEN /\ Yield(InfoEvent(state))
                   /\ pc' = "y_info"
                   /\ UNCHANGED <<current, invoked, executing>>
              ELSE /\ current' = e.next
                   /\ StreamHead(e.next)
    /\ UNCHANGED <<mode, graph, node_map, state0, max_iters, log, outcome, ret, sent>>

\* resumed after a step event: edge, iteration cap, next loop head
StreamAfterStep ==
    /\ Resumed /\ pc = "y_step"
    /\ UNCHANGED srv
    /\ state' = state
    /\ LET e == ResolveEdge(edges_get(current), state)
       IN  /\ last_cond' = e.cond
           /\ IF e.raised
              THEN /\ Yield(CondErrorEvent)
                   /\ pc' = "y_error"
                   /\ UNCHANGED <<current, invoked, executing>>
              ELSE IF BoundReached(state, max_iters)
              THEN /\ Yield(InfoEvent(state))
                   /\ pc' = "y_info"
                   /\ UNCHANGED <<current, invoked, executing>>
              ELSE /\ current' = e.next
                   /\ StreamHead(e.next)
    /\ UNCHANGED <<mode, graph, node_map, state0, max_iters, log, outcome, ret, sent>>

\* resumed after an error or info event: break, then the completion yield
StreamAfterBreak ==
    /\ Resumed /\ pc \in {"y_error", "y_info"}
    /\ UNCHANGED srv
    /\ Yield(CompleteEvent(state))
    /\ pc' = "y_complete"
    /\ UNCHANGED <<mode, graph, node_map, state0, state, current, max_iters, log,
                   outcome, ret, invoked, last_cond, executing, sent>>

\* resumed after the complete event: the generator is exhausted
StreamEnd ==
    /\ Resumed /\ pc = "y_complete"
    /\ UNCHANGED srv
    /\ pc' = "done"
    /\ outcome' = "returned"
    /\ consumer' = "closed"
    /\ UNCHANGED <<mode, graph, node_map, state0, state, current, max_iters, log,
                   ret, events, invoked, last_cond, executing, sent>>

----------------------------------------------------------------------------
(* websocket_graph_run: the consumer of stream_graph *)

\* await websocket.send_json(event); await asyncio.sleep(0.05); then the loop asks
\* the generator for its next event
ConsumerSend ==
    /\ mode = "stream" /\ consumer = "send"
    /\ UNCHANGED srv
    /\ sent' = (IF sent < MaxEvents THEN sent + 1 ELSE sent)
    /\ consumer' = "anext"
    /\ UNCHANGED <<mode, graph, node_map, state0, state, current, max_iters, log, pc,
                   outcome, ret, events, invoked, last_cond, executing>>

\* send_json raises (WebSocketDisconnect: the client is gone) or the handler is
\* cancelled while it holds an event: the loop is left, the generator stays suspended
\* at its yield
ConsumerDisconnect ==
    /\ mode = "stream" /\ consumer = "send"
    /\ UNCHANGED srv
    /\ consumer' = "stopped"
    /\ UNCHANGED <<mode, graph, node_map, state0, state, current, max_iters, log, pc,
                   outcome, ret, events, invoked, last_cond, executing, sent>>

\* the handler is cancelled while the generator awaits a step: CancelledError is
\* raised at the await, passes the except Exception clause and ends the generator;
\* the step dispatched to the executor is not interrupted
ConsumerCancel ==
    /\ Resumed /\ pc = "in_step"
    /\ UNCHANGED srv
    /\ consumer' = "stopped"
    /\ pc' = "cancelled"
    /\ UNCHANGED <<mode, graph, node_map, state0, state, current, max_iters, log,
                   outcome, ret, events, invoked, last_cond, executing, sent>>

\* the step that was in flight when the generator was cancelled ends; its result is
\* assigned to nothing
AbandonedStepEnds ==
    /\ mode = "stream" /\ pc = "cancelled" /\ executing > 0
    /\ UNCHANGED srv
    /\ executing' = executing - 1
    /\ UNCHANGED <<mode, graph, node_map, state0, state, current, max_iters, log, pc,
                   outcome, ret, events, invoked, last_cond, consumer, sent>>

----------------------------------------------------------------------------

Next ==
    \/ BatchBegin
    \/ BatchLoop
    \/ BatchStepReturn
    \/ StreamBegin
    \/ StreamAfterStart
    \/ StreamStepReturn
    \/ StreamAfterStep
    \/ StreamAfterBreak
    \/ StreamEnd
    \/ ConsumerSend
    \/ ConsumerDisconnect
    \/ ConsumerCancel
    \/ AbandonedStepEnds

Spec == Init /\ [][Next]_vars

\* the event loop runs a ready coroutine, and the consumer's async for keeps asking
\* the generator for its next event
FairSpec == Spec /\ WF_vars(Next)

----------------------------------------------------------------------------
(* run_graph_endpoint: two requests served at once over one graph and registry *)

\* the run ids (uuid4) of the two requests
RunIds == {"r1", "r2"}
NoRef == "none"
NoRecord == [status |-> "absent"]

\* mutant of NewState: every request works on the state object of the first
NewStateShared(i) == "r1"

\* state = DataState(**initial_state): an object of its own for each request, named
\* here by the run
NewState(i) == i

\* A -> B, B -> (check ? A : end)
ServerGraphs ==
    {[start_node |-> "A",
      edges |-> [n \in Nodes |->
                   IF n = "A" THEN StrEdge("B") ELSE CondEdge(c, "A", NoneNode)]] :
        c \in MainChecks}
ServerRegistries ==
    {[n \in Nodes |-> IF n = "A" THEN ka ELSE kb] :
        ka \in {"inc", "dec"}, kb \in {"noop", "raise"}}
ServerStates == {s \in States : DOMAIN s.metadata = MetaKeys}

ServerInit ==
    /\ mode = "server"
    /\ graph \in ServerGraphs
    /\ node_map \in ServerRegistries
    /\ runs \in [RunIds ->
                   {[pc |-> "idle", state0 |-> s, state |-> NoRef, current |-> NoneNode,
                     max_iters |-> 0, log |-> <<>>, invoked |-> <<>>,
                     outcome |-> "running", ret |-> <<>>] : s \in ServerStates}]
    /\ heap = [i \in RunIds |-> Absent]
    /\ RUNS = [i \in RunIds |-> NoRecord]
    /\ state0 = <<>> /\ state = <<>> /\ current = NoneNode /\ max_iters = 0
    /\ log = <<>> /\ pc = "server" /\ outcome = "running" /\ ret = <<>>
    /\ events = <<>> /\ invoked = <<>> /\ last_cond = <<>>
    /\ executing = 0 /\ consumer = "none" /\ sent = 0

\* run_graph_endpoint up to the loop of run_graph: the state object, the run record
\* with status running, then current, log and max_iters of run_graph
ServeBegin(i) ==
    /\ mode = "server" /\ runs[i].pc = "idle"
    /\ LET ref == NewState(i)
           st == runs[i].state0
       IN  /\ heap' = [heap EXCEPT ![ref] = st]
           /\ RUNS' = [RUNS EXCEPT ![i] = [state |-> ref, log |-> <<>>,
                                           status |-> "running"]]
           /\ runs' = [runs EXCEPT ![i].state = ref,
                                   ![i].current = graph.start_node,
                                   ![i].log = <<>>,
                                   ![i].max_iters = MaxItersOf(st.metadata),
                                   ![i].pc = "loop"]
    /\ UNCHANGED <<graph, node_map>>
    /\ UNCHANGED runvars

\* top of the while loop of run i: run_graph returns and the record is set to
\* finished, or the step of current is invoked
ServeLoop(i) ==
    /\ mode = "server" /\ runs[i].pc = "loop"
    /\ LET run == runs[i]
       IN  IF run.current = NoneNode \/ get_node_fn(run.current) = Absent
           THEN /\ runs' = [runs EXCEPT
                              ![i].pc = "done",
                              ![i].outcome = "returned",
                              ![i].ret = <<[state |-> heap[run.state],
                                            log |-> run.log]>>]
                /\ RUNS' = [RUNS EXCEPT ![i] = [state |-> run.state, log |-> run.log,
                                                status |-> "finished"]]
           ELSE /\ runs' = [runs EXCEPT ![i].pc = "in_step",
                                        ![i].invoked = Record(@, run.current)]
                /\ UNCHANGED RUNS
    /\ UNCHANGED <<heap, graph, node_map>>
    /\ UNCHANGED runvars

\* the step of run i returns or raises; then the log entry, the edge and the cap
ServeStepReturn(i) ==
    /\ mode = "server" /\ runs[i].pc = "in_step"
    /\ LET run == runs[i]
           r == StepApply(get_node_fn(run.current), heap[run.state])
       IN  IF ~r.ok
           THEN /\ runs' = [runs EXCEPT ![i].pc = "done", ![i].outcome = "raised"]
                /\ UNCHANGED <<heap, RUNS>>
           ELSE LET st == r.state
                    lg == Record(run.log, LogEntry(run.current, st))
                    e == ResolveEdge(edges_get(run.current), st)
                IN  /\ heap' = [heap EXCEPT ![run.state] = st]
                    /\ IF e.raised
                       THEN /\ runs' = [runs EXCEPT ![i].pc = "done",
                                                    ![i].outcome = "raised",
                                                    ![i].log = lg]
                            /\ UNCHANGED RUNS
                       ELSE IF BoundReached(st, run.max_iters)
                       THEN /\ runs' = [runs EXCEPT
                                          ![i].pc = "done",
                                          ![i].outcome = "returned",
                                          ![i].log = lg,
                                          ![i].ret = <<[state |-> st, log |-> lg]>>]
                            /\ RUNS' = [RUNS EXCEPT
                                          ![i] = [state |-> run.state, log |-> lg,
                                                  status |-> "finished"]]
                       ELSE /\ runs' = [runs EXCEPT ![i].log = lg,
                                                    ![i].current = e.next,
                                                    ![i].pc = "loop"]
                            /\ UNCHANGED RUNS
    /\ UNCHANGED <<graph, node_map>>
    /\ UNCHANGED runvars

\* GET /graph/state/{run_id}: 404 for an unknown run id, else the record's status, the
\* state object it refers to and its log
get_state(run_id) ==
    IF RUNS[run_id] = NoRecord
    THEN [status_code |-> 404]
    ELSE [run_id |-> run_id, status |-> RUNS[run_id].status,
          state |-> heap[RUNS[run_id].state], log |-> RUNS[run_id].log]

ServerNext ==
    \/ \E i \in RunIds : ServeBegin(i)
    \/ \E i \in RunIds : ServeLoop(i)
    \/ \E i \in RunIds : ServeStepReturn(i)

ServerSpec == ServerInit /\ [][ServerNext]_vars

ServerTypeOK ==
    /\ \A i \in RunIds :
          /\ runs[i].pc \in {"idle", "loop", "in_step", "done"}
          /\ runs[i].pc # "idle" => runs[i].state \in RunIds
          /\ Len(runs[i].invoked) < MaxSteps
          /\ RUNS[i].status \in {"absent", "running", "finished"}

TypeOK ==
    /\ pc \in {"start", "loop", "in_step", "y_start", "y_step", "y_error", "y_info",
               "y_complete", "done", "cancelled"}
    /\ consumer \in {"none", "anext", "send", "stopped", "closed"}
    /\ executing \in 0 .. 1
    /\ sent \in 0 .. MaxEvents
    /\ outcome \in {"running", "returned", "raised"}
    /\ current \in DOMAIN graph.edges \cup {NoneNode}
    /\ Len(invoked) <= MaxSteps

\* a run that has ended invoked fewer than MaxSteps steps: no history of it was cut
EndedRunsUncut == pc = "done" => Len(invoked) < MaxSteps /\ Len(events) < MaxEvents

\* the batch actions end a run as the function run_graph says
BatchActionsAgree ==
    (mode = "batch" /\ pc = "done") =>
        run_graph(state0) = [outcome |-> outcome, state |-> state, log |-> log]

----------------------------------------------------------------------------
(* Vocabulary of the properties *)

Last(seq) == seq[Len(seq)]
Max2(a, b) == IF a >= b THEN a ELSE b
NodesOf(lg) == [i \in 1 .. Len(lg) |-> lg[i].node]

\* the histories hold every step of the run so far
Uncut == Len(invoked) < MaxSteps

EventIdx == 1 .. Len(events)
IsStepEvent(i) == events[i].type = "step"
IsErrorEvent(i) == events[i].type = "error"
NodeErrorEvent(i) == IsErrorEvent(i) /\ "node" \in DOMAIN events[i]
HasError == \E i \in EventIdx : IsErrorEvent(i)

\* the node whose step returned last
HasExecuted ==
    IF mode = "batch" THEN log # <<>> ELSE \E i \in EventIdx : IsStepEvent(i)
LastExecuted ==
    IF mode = "batch" THEN Last(log).node
    ELSE events[CHOOSE i \in EventIdx :
                  IsStepEvent(i) /\ \A j \in EventIdx : IsStepEvent(j) => j <= i].node

\* the step invoked last has raised into the engine
StepRaised ==
    /\ invoked # <<>> /\ pc \notin {"in_step", "cancelled"}
    /\ ~StepApply(get_node_fn(Last(invoked)), state).ok
\* the latest condition evaluation has raised
CondRaised == last_cond # <<>> /\ last_cond[1].res = "raise"

\* the names a graph refers to
Referenced ==
    ({graph.start_node}
       \cup {graph.edges[n].to :
                n \in {m \in DOMAIN graph.edges : graph.edges[m].kind = "str"}}
       \cup UNION {{graph.edges[n].true, graph.edges[n].false} :
                      n \in {m \in DOMAIN graph.edges : graph.edges[m].kind = "cond"}})
    \ {NoneNode}

IsExample ==
    graph = ExampleGraph /\ node_map = ExampleRegistry /\ state0 = ExampleState

----------------------------------------------------------------------------
(* C1 *)

\* C1 (as claimed): in streaming mode an error, info or complete event is the last
\* event of the sequence: no event follows it.
C1_NoEventAfterTerminal ==
    mode = "stream" =>
        \A i \in EventIdx :
            events[i].type \in {"error", "info", "complete"} => i = Len(events)

----------------------------------------------------------------------------
(* C2 *)

\* C2 (as claimed): the batch run of the A/B scenario from x = 2, iteration = 0,
\* max_iterations = 5 executes A,B,A,B,A,B and ends with x = -1, iteration = 3.
C2_ExampleThreeCycles ==
    (IsExample /\ mode = "batch" /\ pc = "done") =>
        /\ ret # <<>>
        /\ NodesOf(ret[1].log) = <<"A", "B", "A", "B", "A", "B">>
        /\ ret[1].state.metadata["x"] = -1
        /\ ret[1].state.iteration = 3

\* C2 (amended): that run executes A,B,A,B and ends with x = 0, iteration = 2,
\* because x > 0 evaluated to false and the false branch is absent.
C2_ExampleTwoCycles ==
    (IsExample /\ mode = "batch" /\ pc = "done") =>
        /\ outcome = "returned" /\ ret # <<>>
        /\ NodesOf(ret[1].log) = <<"A", "B", "A", "B">>
        /\ invoked = <<"A", "B", "A", "B">>
        /\ ret[1].state.metadata["x"] = 0
        /\ ret[1].state.iteration = 2
        /\ last_cond = <<[check |-> [lhs |-> "x", op |-> ">", rhs |-> V(0)],
                          res |-> "false"]>>
        /\ current = NoneNode

C2_Witness == IsExample /\ mode = "batch" /\ pc = "done" /\ Len(log) = 4

----------------------------------------------------------------------------
(* C3 *)

\* every referenced node is registered and every step only increments iteration
AllIncRun == mode = "batch" /\ \A n \in Referenced : get_node_fn(n) = "inc"

\* C3 (as claimed): such a batch run executes at most max_iterations steps.
C3_AtMostMaxIterationsSteps ==
    AllIncRun => Len(invoked) <= MaxItersOf(state0.metadata)

StepBudget == Max2(1, MaxItersOf(state0.metadata) - state0.iteration)

\* C3 (amended): such a batch run executes at most
\* max(1, max_iterations - initial iteration) steps, and has ended once the last of
\* them returned.
C3_AtMostBudgetSteps ==
    AllIncRun =>
        /\ Len(invoked) <= StepBudget
        /\ (Len(invoked) = StepBudget /\ pc # "in_step") => pc = "done"

C3_Witness ==
    /\ AllIncRun /\ pc = "done" /\ outcome = "returned"
    /\ Len(invoked) = StepBudget /\ Len(invoked) >= 3
    /\ state0.iteration < 0

----------------------------------------------------------------------------
(* C4 *)

NoopRun == mode = "batch" /\ \A n \in DOMAIN node_map : node_map[n] = "noop"
NoTrueBranch == last_cond = <<>> \/ last_cond[1].res # "true"

\* C4 (as claimed): a batch run whose steps are all no-ops and whose conditions never
\* evaluate to true ends, for any positive max_iterations.
C4_NoopRunEnds ==
    (NoopRun /\ MaxItersOf(state0.metadata) > 0) =>
        ([]NoTrueBranch => <>(pc = "done"))

----------------------------------------------------------------------------
(* C5 *)

Unresolved(lhs) == lhs \notin Fields /\ lhs \notin DOMAIN state.metadata

----------------------------------------------------------------------------
(* C6 *)

\* C6: a condition whose operator is none of >, <, >=, <=, == evaluates to false
\* without raising, whatever its operands; unless the iteration cap stops the run,
\* the run goes on with the false branch.
C6_UnknownOperatorIsFalse ==
    (last_cond # <<>> /\ last_cond[1].check.op \notin SupportedOps) =>
        /\ last_cond[1].res = "false"
        /\ (Uncut /\ HasExecuted /\ pc # "y_error"
              /\ ~BoundReached(state, max_iters)) =>
               current = edges_get(LastExecuted).false

C6_Witness ==
    /\ last_cond # <<>> /\ last_cond[1].check.op = "!="
    /\ last_cond[1].check.lhs = "nope" /\ last_cond[1].check.rhs = NoneV
    /\ last_cond[1].res = "false"
    /\ mode = "batch" /\ pc = "done" /\ outcome = "returned" /\ current = NoneNode

----------------------------------------------------------------------------
(* C7 *)

\* run_graph has ended at a node that has no step
MissingStop ==
    mode = "batch" /\ pc = "done" /\ current # NoneNode /\ get_node_fn(current) = Absent

\* C7: in batch mode a node without a step ends the run normally: the returned log
\* holds exactly the entries of the steps executed before it, in order, and the
\* returned state is the state the last of them produced (the initial state if none).
C7_MissingStepTruncates ==
    MissingStop =>
        /\ outcome = "returned" /\ ret # <<>>
        /\ ret[1].log = log
        /\ NodesOf(ret[1].log) = invoked
        /\ ret[1].state = state
        /\ invoked = <<>> => ret[1].state = state0

C7_Witness ==
    MissingStop /\ invoked = <<"A">> /\ current = "B" /\ state # state0

----------------------------------------------------------------------------
(* C8 *)

NoMaxEntry == "max_iterations" \notin DOMAIN state0.metadata

\* run_graph has ended at the iteration cap: it returned at a node that has a step
BatchBoundStop ==
    /\ mode = "batch" /\ pc = "done" /\ outcome = "returned"
    /\ current # NoneNode /\ get_node_fn(current) # Absent

\* C8: without a max_iterations entry both modes use the bound 5: no step is invoked
\* once a step has left iteration >= 5, and the run stops by bound (batch: returns at
\* a registered node; streaming: info event) only with iteration >= 5.
C8_DefaultBoundIsFive ==
    NoMaxEntry =>
        /\ (pc \in {"loop", "in_step"} /\ HasExecuted) => state.iteration < 5
        /\ BatchBoundStop => state.iteration >= 5
        /\ pc = "y_info" => state.iteration >= 5
        /\ \A i \in EventIdx : events[i].type = "info" => events[i].iteration >= 5

C8_Witness ==
    /\ NoMaxEntry /\ mode = "stream" /\ pc = "y_info"
    /\ state.iteration = 5 /\ Len(invoked) = 5 /\ state0.iteration = 0

----------------------------------------------------------------------------
(* C9 *)

\* C9: in batch mode the first step that raises, or the first condition evaluation
\* that fails, ends the run: the exception reaches the caller, nothing is returned,
\* and no step is invoked after it.
C9_BatchFailFast ==
    (mode = "batch" /\ Uncut /\ (StepRaised \/ CondRaised)) =>
        /\ pc = "done" /\ outcome = "raised" /\ ret = <<>>
        /\ StepRaised => Len(invoked) = Len(log) + 1
        /\ CondRaised => NodesOf(log) = invoked

C9_Witness ==
    /\ mode = "batch" /\ StepRaised /\ ~CondRaised /\ Len(log) >= 1 /\ outcome = "raised"

----------------------------------------------------------------------------
(* C10 *)

Count(P(_)) == Cardinality({i \in EventIdx : P(i)})

\* C10: in streaming mode nothing is raised to the consumer: a node without a step
\* yields an error event naming it, a raising step an error event with the node name
\* and a message, a failing condition evaluation an error event; no step is invoked
\* after an error event.
C10_StreamFailSoft ==
    (mode = "stream" /\ Uncut) =>
        /\ outcome # "raised"
        /\ (pc \notin {"start", "y_start"} /\ current # NoneNode
              /\ get_node_fn(current) = Absent) =>
               \E i \in EventIdx : events[i] = MissingEvent(current)
        /\ StepRaised =>
               \E i \in EventIdx :
                   /\ NodeErrorEvent(i) /\ events[i].node = Last(invoked)
                   /\ events[i].message # <<>>
        /\ CondRaised => \E i \in EventIdx : events[i] = CondErrorEvent
        /\ HasError =>
               /\ pc \in {"y_error", "y_complete", "done"}
               /\ Len(invoked) = Count(IsStepEvent) + Count(NodeErrorEvent)
               /\ \A i, j \in EventIdx :
                      (IsErrorEvent(i) /\ i < j) => ~IsStepEvent(j)

C10_Witness ==
    /\ mode = "stream" /\ pc = "done" /\ StepRaised
    /\ Count(IsStepEvent) >= 1 /\ Count(NodeErrorEvent) = 1

----------------------------------------------------------------------------
(* C11 *)

IsInfoEvent(i) == events[i].type = "info"
\* a step has returned and left state.iteration >= max_iters
BoundHit == HasExecuted /\ BoundReached(state, max_iters)

\* C11 (as claimed): in streaming mode an info event is emitted exactly when a step
\* has left iteration >= max_iterations (once the generator has gone on from that
\* step's event).
C11_InfoExactlyAtBound ==
    (mode = "stream" /\ Uncut /\ pc # "y_step") =>
        ((\E i \in EventIdx : IsInfoEvent(i)) <=> BoundHit)

\* C11 (amended): after a step that leaves iteration >= max_iterations no other step
\* is invoked and current stays at that step's node, whatever the edge resolves to;
\* in streaming mode one info event carrying state.iteration is then emitted unless
\* the evaluation of the edge's condition failed, in which case an error event is
\* emitted and no info event; no info event is emitted while iteration <
\* max_iterations.
C11_BoundStopsRun ==
    Uncut =>
        /\ BoundHit =>
              /\ pc \notin {"loop", "in_step"}
              /\ Last(invoked) = LastExecuted
              /\ current = LastExecuted
              /\ mode = "batch" => pc = "done"
              /\ (mode = "stream" /\ pc # "y_step") =>
                    IF CondRaised
                    THEN Count(IsInfoEvent) = 0 /\ Count(IsErrorEvent) = 1
                    ELSE Count(IsInfoEvent) = 1 /\ Count(IsErrorEvent) = 0
        /\ \A i \in EventIdx :
              IsInfoEvent(i) =>
                  /\ BoundHit
                  /\ events[i].iteration = state.iteration
                  /\ events[i].iteration >= max_iters
                  /\ i > 1 /\ IsStepEvent(i - 1)

C11_Witness ==
    /\ mode = "stream" /\ pc = "y_info" /\ BoundHit
    /\ edges_get(current) = NoEdge
    /\ Len(invoked) >= 2

----------------------------------------------------------------------------
(* C14 *)

IsStartEvent(i) == events[i].type = "start"

\* C14: a streaming run emits exactly one start event, as its first event and before
\* any step is invoked; a run whose start_node is absent invokes no step: batch mode
\* returns the initial state and an empty log, streaming mode emits start and then
\* complete and nothing else.
C14_StartFirstAndOnce ==
    /\ mode = "stream" =>
          /\ pc = "start" => events = <<>>
          /\ pc # "start" =>
                /\ events # <<>>
                /\ events[1] = StartEvent(graph.start_node, state0)
                /\ Count(IsStartEvent) = 1
          /\ pc \in {"start", "y_start"} => invoked = <<>> /\ state = state0
    /\ graph.start_node = NoneNode =>
          /\ invoked = <<>> /\ state = state0
          /\ pc \notin {"in_step", "y_step", "y_error", "y_info"}
          /\ (mode = "batch" /\ pc = "done") =>
                /\ outcome = "returned"
                /\ ret = <<[state |-> state0, log |-> <<>>]>>
          /\ (mode = "stream" /\ pc \in {"y_complete", "done"}) =>
                events = <<StartEvent(NoneNode, state0), CompleteEvent(state0)>>

C14_Witness ==
    /\ mode = "stream" /\ graph.start_node = NoneNode /\ pc = "done"
    /\ Len(events) = 2 /\ Last(events).type = "complete"

----------------------------------------------------------------------------
(* C19 *)

IsCompleteEvent(i) == events[i].type = "complete"

\* the edge of the node executed last leads nowhere: the node has no edge entry, or
\* the branch its condition selected is absent
NoSuccessor ==
    LET e == edges_get(LastExecuted)
    IN  \/ e.kind = "none"
        \/ /\ e.kind = "cond" /\ last_cond # <<>>
           /\ \/ last_cond[1].res = "true" /\ e.true = NoneNode
              \/ last_cond[1].res = "false" /\ e.false = NoneNode

\* the edge of the step that returned last has been handled, below the bound
EdgeHandled ==
    /\ HasExecuted /\ ~StepRaised /\ pc \notin {"in_step", "y_step"}
    /\ ~BoundReached(state, max_iters)

\* C19: when the node executed last has no edge entry, or its conditional edge
\* selects an absent branch, and the bound is not reached, the run ends normally: no
\* further step is invoked, run_graph returns the state and the log, stream_graph
\* emits complete and neither an error nor an info event.
C19_AbsentSuccessorEndsRun ==
    (Uncut /\ EdgeHandled /\ NoSuccessor) =>
        /\ current = NoneNode
        /\ Last(invoked) = LastExecuted
        /\ mode = "batch" =>
              /\ pc \in {"loop", "done"}
              /\ NodesOf(log) = invoked
              /\ pc = "done" =>
                    outcome = "returned" /\ ret = <<[state |-> state, log |-> log]>>
        /\ mode = "stream" =>
              /\ pc \in {"y_complete", "done"}
              /\ Len(invoked) = Count(IsStepEvent)
              /\ ~HasError /\ Count(IsInfoEvent) = 0
              /\ Last(events) = CompleteEvent(state)
              /\ Count(IsCompleteEvent) = 1

C19_Witness ==
    /\ mode = "stream" /\ pc = "done" /\ EdgeHandled /\ NoSuccessor
    /\ edges_get(LastExecuted).kind = "cond" /\ last_cond[1].res = "true"
    /\ Len(invoked) >= 2

----------------------------------------------------------------------------
(* C20 *)

\* the outcome of comparing the int a with the right operand rhs under op
Compared(op, a, rhs) ==
    IF op \in OrderOps
    THEN IF rhs.t # "int" THEN "raise"
         ELSE IF \/ op = ">" /\ a > rhs.v
                 \/ op = "<" /\ a < rhs.v
                 \/ op = ">=" /\ a >= rhs.v
                 \/ op = "<=" /\ a <= rhs.v
              THEN "true" ELSE "false"
    ELSE IF op = "==" /\ rhs.t = "int" /\ a = rhs.v THEN "true" ELSE "false"

\* the state a streaming run held when the last step event was yielded
LastSnapshot ==
    events[CHOOSE i \in EventIdx :
             IsStepEvent(i) /\ \A j \in EventIdx : IsStepEvent(j) => j <= i].state_snapshot

\* C20: the left operand of a condition is the state field of that name when there
\* is one, also when the metadata has a key of the same name, and the metadata entry
\* only otherwise; evaluating a condition leaves the state and its metadata as they
\* were.
C20_FieldBeforeMetadata ==
    last_cond # <<>> =>
        LET c == last_cond[1].check
            res == last_cond[1].res
        IN  /\ c.lhs \in Fields => res = Compared(c.op, state[c.lhs], c.rhs)
            /\ (c.lhs \notin Fields /\ c.lhs \in DOMAIN state.metadata) =>
                   res = Compared(c.op, state.metadata[c.lhs], c.rhs)
            /\ (mode = "stream" /\ Uncut) => state = LastSnapshot
            /\ (mode = "batch" /\ pc = "done" /\ outcome = "returned") =>
                   ret[1].state = state

C20_Witness ==
    /\ last_cond # <<>>
    /\ last_cond[1].check.lhs = "iteration"
    /\ "iteration" \in DOMAIN state.metadata
    /\ state.metadata["iteration"] # state.iteration
    /\ last_cond[1].check = [lhs |-> "iteration", op |-> "==",
                             rhs |-> V(state.metadata["iteration"])]
    /\ last_cond[1].res = "false"

----------------------------------------------------------------------------
(* C16 *)

\* C16: in both modes at most one step of the run is executing at any time: a step
\* is invoked only when no step of the run is executing, and the state changes only
\* when the one executing step returns.
C16_OneStepAtATime ==
    /\ [](/\ executing <= 1
          /\ pc = "in_step" => executing = 1
          /\ pc \notin {"in_step", "cancelled"} => executing = 0)
    /\ [][/\ invoked' # invoked => executing = 0 /\ executing' = 1
          /\ state' # state => executing = 1 /\ executing' = 0]_vars

C16_Witness ==
    /\ mode = "stream" /\ pc = "in_step" /\ executing = 1
    /\ Len(invoked) = 3 /\ Count(IsStepEvent) = 2
    /\ state # state0

----------------------------------------------------------------------------
(* C18 *)

\* the number of step invocations that have returned a state
ReturnedSteps == Len(invoked) - executing - (IF StepRaised THEN 1 ELSE 0)

\* C18: in batch mode the log has one entry per step that has returned, in execution
\* order: its length is the number of returned steps and its i-th entry names the
\* i-th invoked node; a step of the run only ever appends one entry at the end.
C18_LogAppendOnly ==
    /\ []((mode = "batch" /\ Uncut) =>
             /\ Len(log) = ReturnedSteps
             /\ \A i \in 1 .. Len(log) : log[i].node = invoked[i]
             /\ ret # <<>> => ret[1].log = log)
    /\ [][mode = "batch" =>
             \/ log' = log
             \/ /\ Len(log') = Len(log) + 1
                /\ SubSeq(log', 1, Len(log)) = log
                /\ pc = "in_step"]_vars

C18_Witness ==
    /\ mode = "batch" /\ pc = "in_step" /\ Uncut
    /\ Len(log) = 2 /\ Len(invoked) = 3
    /\ log[1].node # log[2].node

----------------------------------------------------------------------------
(* C15 *)

\* C15: streaming is lazy: at most one event is produced and not yet sent, a step is
\* invoked only while the consumer waits for the next event with every earlier event
\* taken, and once the consumer has left its loop no step is invoked and no event is
\* produced (a step that was in flight then may still end).
C15_LazyOneEventInFlight ==
    /\ []((mode = "stream" /\ Len(events) < MaxEvents) =>
             /\ consumer = "send" => Len(events) = sent + 1
             /\ consumer \in {"anext", "closed"} => Len(events) = sent
             /\ consumer = "stopped" => Len(events) \in {sent, sent + 1}
             /\ pc = "in_step" => consumer = "anext")
    /\ [][/\ (mode = "stream" /\ invoked' # invoked) => consumer = "anext"
          /\ consumer = "stopped" =>
                /\ invoked' = invoked /\ events' = events
                /\ consumer' = "stopped"
                /\ executing' <= executing]_vars

C15_Witness ==
    /\ mode = "stream" /\ consumer = "stopped" /\ pc = "cancelled" /\ executing = 0
    /\ Len(invoked) = 2 /\ Count(IsStepEvent) = 1 /\ sent = Len(events)

----------------------------------------------------------------------------
(* C13 *)

\* a batch run of the data-quality loop from iteration 0 with max_iterations >= 1
DQRun ==
    /\ graph = DQGraph /\ node_map = DQRegistry /\ mode = "batch"
    /\ state0.iteration = 0 /\ MaxItersOf(state0.metadata) >= 1

\* C13: a batch run of the data-quality loop graph started at iteration 0 with
\* max_iterations >= 1 ends; its iteration never exceeds max_iterations, and it
\* returns with anomaly_count = 0 or with iteration = max_iterations.
C13_DQLoopConverges ==
    /\ [](DQRun =>
             /\ state.iteration <= MaxItersOf(state0.metadata)
             /\ pc = "done" =>
                   /\ outcome = "returned" /\ ret = <<[state |-> state, log |-> log]>>
                   /\ \/ state.anomaly_count = 0
                      \/ state.iteration = MaxItersOf(state0.metadata))
    /\ (DQRun => <>(pc = "done"))

C13_Witness ==
    /\ DQRun /\ pc = "done" /\ outcome = "returned"
    /\ state.anomaly_count > 0 /\ state.iteration = 2
    /\ NodesOf(log) = <<"profile_data", "identify_anomalies", "generate_rules",
                        "apply_rules", "re_evaluate", "generate_rules", "apply_rules",
                        "re_evaluate">>

----------------------------------------------------------------------------
(* C12 *)

\* the node names of the step events, in order
RECURSIVE StepNodes(_)
StepNodes(evs) ==
    IF evs = <<>> THEN <<>>
    ELSE IF Head(evs).type = "step" THEN <<Head(evs).node>> \o StepNodes(Tail(evs))
    ELSE StepNodes(Tail(evs))

\* C12: for the same graph, registry and initial state, whenever the batch run
\* returns, the step events of the completed streaming run name the nodes of the
\* batch log in the same order, every step event reports the anomaly_count of the
\* batch log entry, and the final state snapshot is the batch final state.
C12_StreamMatchesBatch ==
    (mode = "stream" /\ pc = "done") =>
        LET b == run_graph(state0)
        IN  b.outcome = "returned" =>
               /\ StepNodes(events) = NodesOf(b.log)
               /\ invoked = NodesOf(b.log)
               /\ Last(events) = CompleteEvent(b.state)
               /\ state = b.state
               /\ \A i \in EventIdx :
                      IsStepEvent(i) =>
                          events[i].anomaly_count = b.log[i - 1].anomaly_count

C12_Witness ==
    /\ mode = "stream" /\ pc = "done" /\ run_graph(state0).outcome = "returned"
    /\ Len(run_graph(state0).log) = 1 /\ HasError
    /\ state # state0

----------------------------------------------------------------------------
(* C17 *)

\* C17: two runs over states of their own that are served at once, interleaved at
\* their steps, over one graph and one registry, each end as run_graph ends alone on
\* the same initial state (outcome, executed nodes, log, final state, stored record);
\* a step of one run changes neither the other run's state nor its record, and no
\* step changes the graph or the registry.
C17_RunsDoNotInterfere ==
    /\ [](\A i \in RunIds :
             runs[i].pc = "done" =>
                 LET b == run_graph(runs[i].state0)
                 IN  /\ runs[i].outcome = b.outcome
                     /\ SubSeq(runs[i].invoked, 1, Len(b.log)) = NodesOf(b.log)
                     /\ Len(runs[i].invoked) \in {Len(b.log), Len(b.log) + 1}
                     /\ b.outcome = "returned" => runs[i].invoked = NodesOf(b.log)
                     /\ runs[i].log = b.log
                     /\ heap[runs[i].state] = b.state
                     /\ b.outcome = "returned" =>
                           /\ runs[i].ret = <<[state |-> b.state, log |-> b.log]>>
                           /\ RUNS[i] = [state |-> runs[i].state, log |-> b.log,
                                         status |-> "finished"])
    /\ [][/\ graph' = graph /\ node_map' = node_map
          /\ \A i \in RunIds :
                (runs[i].pc # "idle" /\ runs'[i] = runs[i]) =>
                    /\ heap'[runs[i].state] = heap[runs[i].state]
                    /\ RUNS'[i] = RUNS[i]]_vars

C17_Witness ==
    /\ mode = "server"
    /\ \A i \in RunIds : runs[i].pc = "in_step" /\ Len(runs[i].log) >= 2
    /\ heap["r1"] # heap["r2"]
    /\ runs["r1"].log # runs["r2"].log

(* C21 *)

\* the run starts at a registered node with iteration >= max_iterations already
StartsLate ==
    /\ get_node_fn(graph.start_node) # Absent
    /\ BoundReached(state0, MaxItersOf(state0.metadata))

\* C21: the iteration bound is tested only after a step has returned, once for that
\* step: a batch run that returns at a registered node and every info event of a
\* stream come right after a returned step that left iteration >= max_iterations.
\* A run that starts at a registered node with iteration >= max_iterations already
\* (max_iterations may be zero or negative) still invokes the step of the start node,
\* and only that one; unless that step or the evaluation of its edge's condition
\* fails, the run then stops by the bound: current stays at the start node, the batch
\* log has that one entry, the stream has one step event and one info event.
C21_BoundTestedAfterStep ==
    Uncut =>
        /\ (mode = "batch" /\ outcome = "returned" /\ get_node_fn(current) # Absent) =>
              /\ log # <<>> /\ Last(log).node = current
              /\ BoundReached(state, max_iters)
        /\ Count(IsInfoEvent) <= 1
        /\ \A i \in EventIdx :
              IsInfoEvent(i) =>
                  /\ i > 1 /\ IsStepEvent(i - 1)
                  /\ events[i - 1].node = current
                  /\ BoundReached(state, max_iters)
        /\ StartsLate =>
              /\ invoked \in {<<>>, <<graph.start_node>>}
              /\ pc \in {"in_step", "y_step", "y_error", "y_info", "y_complete", "done"} =>
                    invoked = <<graph.start_node>>
              /\ (pc = "done" /\ ~StepRaised /\ ~CondRaised) =>
                    /\ current = graph.start_node
                    /\ BoundReached(state, max_iters)
                    /\ mode = "batch" =>
                          /\ outcome = "returned"
                          /\ NodesOf(ret[1].log) = <<graph.start_node>>
                    /\ mode = "stream" =>
                          /\ Count(IsStepEvent) = 1
                          /\ Count(IsInfoEvent) = 1

\* a stream that started at iteration 0 with a negative max_iterations has ended after
\* the one step of its start node, whose edge led on to another registered node
C21_Witness ==
    /\ mode = "stream" /\ pc = "done" /\ StartsLate
    /\ max_iters < 0 /\ state0.iteration = 0
    /\ invoked = <<graph.start_node>>
    /\ ~StepRaised /\ ~CondRaised
    /\ Count(IsInfoEvent) = 1
    /\ get_node_fn(ResolveEdge(edges_get(current), state).next) # Absent

(* C22 *)

\* C22 (as claimed): every record that /graph/run stores with status running
\* eventually gets status finished with the final state and the log of its run, also
\* when a step raises or a condition evaluation fails. Only the call that stored the
\* record ever writes it, so the claim requires of every call that has ended, by
\* return or by exception, that GET /graph/state then reports the record as finished
\* with the state and the log the run has reached.
C22_EndedCallLeavesFinished ==
    \A i \in RunIds :
        runs[i].pc = "done" =>
            /\ get_state(i).status = "finished"
            /\ get_state(i).state = heap[runs[i].state]
            /\ get_state(i).log = runs[i].log

\* the part of C22 that the code keeps: a record is stored once as running, never
\* goes back from finished to running, and only a call that returns sets it finished
C22_FinishedStays ==
    /\ [](\A i \in RunIds :
             /\ RUNS[i].status = "finished" <=>
                   (runs[i].pc = "done" /\ runs[i].outcome = "returned")
             /\ (runs[i].pc = "done" /\ runs[i].outcome = "raised") =>
                   get_state(i).status = "running" /\ get_state(i).log = <<>>)
    /\ [][\A i \in RunIds :
             /\ RUNS[i].status = "finished" => RUNS'[i] = RUNS[i]
             /\ RUNS[i].status = "running" => RUNS'[i].status \in {"running", "finished"}
         ]_vars
====
